---------------------------- MODULE Spec2Model ----------------------------
(***************************************************************************)
(* A model of the busio.UART binding (shared-bindings/busio/UART.c) of     *)
(* kmkpython.  The binding's functions are translated from the C source;   *)
(* the common_hal_busio_uart_* functions they call live in the port layer  *)
(* and are modelled from the design document (spec.md), as are the         *)
(* hardware receive and transmit paths.                                    *)
(***************************************************************************)
EXTENDS Integers, Sequences, FiniteSets, TLC

VARIABLES
    state,      \* lifecycle of the one UART object: Unconstructed / Active / Deinitialized
    cfg,        \* the session's SerialConfig (as handed to common_hal_busio_uart_construct)
    pinOwner,   \* pin/line ownership registry: pin -> "free" | "uart" | "other"
    rxBuf,      \* ReceiveBuffer: the buffered units, head first
    pushed,     \* number of units the receive path has delivered so far (unit ids 1..pushed)
    dir,        \* DirectionController: "Absent" | "Idle" | "Driving"
    txQueue,    \* units accepted by the hardware transmit path, not yet on the wire
    shifting,   \* TRUE while a unit is being shifted out on the wire
    pc,         \* where the owner thread is: "idle" | "read_wait" | "write_submit" | "write_drain"
    frame,      \* locals of the call the owner thread is blocked in
    bufAlloc,   \* TRUE while the session holds an allocated ReceiveBuffer
    ret         \* outcome of the most recent call that returned

vars == <<state, cfg, pinOwner, rxBuf, pushed, dir, txQueue, shifting, pc, frame,
          bufAlloc, ret>>

----------------------------------------------------------------------------
(* Bounds of the model *)

\* units the receive path delivers during one session
MaxPushes == 3
\* longest payload handed to write()
MaxWrite == 2
\* largest size passed to read()
MaxRead == 2
\* units the hardware transmit path queues before it stops accepting
TxQueueCapacity == 2
\* largest receiver_buffer_size passed to the constructor
MaxBufferSize == 2

----------------------------------------------------------------------------
(* Values *)

None == "None"

\* mp_float_t: an IEEE value is a number or NaN; every ordered comparison with
\* NaN is false.
F(n) == [nan |-> FALSE, v |-> n]
NaN == [nan |-> TRUE, v |-> 0]
FloatLt(a, b) == ~a.nan /\ ~b.nan /\ a.v < b.v
FloatGt(a, b) == ~a.nan /\ ~b.nan /\ a.v > b.v
FloatEq(a, b) == ~a.nan /\ ~b.nan /\ a.v = b.v

\* Python objects that reach the timeout parameter
PyInt(n) == [type |-> "int", f |-> F(n)]
PyFloat(x) == [type |-> "float", f |-> x]
PyStr == [type |-> "str", f |-> F(0)]

\* mp_obj_get_float: an int is converted, a float is unboxed, anything else
\* raises TypeError
mp_obj_get_float(o) ==
    IF o.type \in {"int", "float"} THEN [err |-> "none", f |-> o.f]
    ELSE [err |-> "TypeError", f |-> F(0)]

\* mp_obj_new_float
mp_obj_new_float(x) == PyFloat(x)

\* the assignment of an mp_int_t to a uint8_t keeps the low eight bits
Uint8Range == 256
ToUint8(n) == n % Uint8Range

BitsMin == 7
BitsMax == 9
StopOne == 1
StopTwo == 2
TimeoutMin == 0
TimeoutMax == 100

\* defaults of allowed_args
DefaultBaudrate == 9600
DefaultBits == 8
DefaultStop == 1
DefaultTimeout == PyInt(1)
DefaultReceiverBufferSize == 64

Pins == {"TX", "RX", "RTS", "CTS", "DIR"}

Min(a, b) == IF a < b THEN a ELSE b

----------------------------------------------------------------------------
(* validate_timeout *)

\* raises ValueError("timeout must be 0.0-100.0 seconds") when
\* timeout < 0.0f || timeout > 100.0f
validate_timeout(timeout) ==
    IF FloatLt(timeout, F(TimeoutMin)) \/ FloatGt(timeout, F(TimeoutMax))
    THEN "InvalidTimeout" ELSE "none"

----------------------------------------------------------------------------
(* Pin/line ownership registry (external collaborator) *)

\* claim(line): succeeds only on a free line
CanClaim(owner, p) == owner[p] = "free"
Claim(owner, p) == [owner EXCEPT ![p] = "uart"]
\* release(handle)
Release(owner, p) == [owner EXCEPT ![p] = "free"]

RECURSIVE ReleaseAll(_, _)
ReleaseAll(owner, ps) ==
    IF ps = <<>> THEN owner
    ELSE ReleaseAll(Release(owner, Head(ps)), Tail(ps))

\* claims the lines one after the other; when one cannot be claimed the lines
\* claimed before it are released again
RECURSIVE ClaimLines(_, _, _)
ClaimLines(owner, todo, done) ==
    IF todo = <<>> THEN [err |-> "none", owner |-> owner, claimed |-> done]
    ELSE IF CanClaim(owner, Head(todo))
         THEN ClaimLines(Claim(owner, Head(todo)), Tail(todo), Append(done, Head(todo)))
         ELSE [err |-> "LineUnavailable", owner |-> ReleaseAll(owner, done),
               claimed |-> done]

\* the lines a construct call names, in claiming order
RECURSIVE PresentLines(_)
PresentLines(ps) ==
    IF ps = <<>> THEN <<>>
    ELSE IF Head(ps) = None THEN PresentLines(Tail(ps))
         ELSE <<Head(ps)>> \o PresentLines(Tail(ps))

LinesOf(c) == PresentLines(<<c.tx, c.rx, c.rts, c.cts, c.rs485_dir>>)

----------------------------------------------------------------------------
(* Construction *)

DefaultArgs ==
    [tx |-> "TX", rx |-> "RX", baudrate |-> DefaultBaudrate, bits |-> DefaultBits,
     parity |-> None, stop |-> DefaultStop, timeout |-> DefaultTimeout,
     receiver_buffer_size |-> DefaultReceiverBufferSize,
     rts |-> None, cts |-> None, rs485_dir |-> None, rs485_invert |-> FALSE,
     hw_accepts |-> TRUE]

NoCfg ==
    [tx |-> None, rx |-> None, rts |-> None, cts |-> None, rs485_dir |-> None,
     rs485_invert |-> FALSE, baudrate |-> 0, bits |-> 0, parity |-> "PARITY_NONE",
     stop |-> 0, timeout |-> F(0), receiver_buffer_size |-> 0]

\* assert_pin(obj, true): None or a pin, anything else raises TypeError
assert_pin(obj) == IF obj = None \/ obj \in Pins THEN "none" ELSE "TypeError"

\* assert_pin_free(pin): a pin that is in use raises ValueError
assert_pin_free(owner, pin) ==
    IF pin # None /\ owner[pin] # "free" THEN "PinInUse" ELSE "none"

\* the first error of a sequence of checks
RECURSIVE FirstError(_)
FirstError(es) ==
    IF es = <<>> THEN "none"
    ELSE IF Head(es) # "none" THEN Head(es) ELSE FirstError(Tail(es))

bits_check(bits) == IF bits < BitsMin \/ bits > BitsMax THEN "InvalidWordSize" ELSE "none"
stop_check(stop) == IF stop # StopOne /\ stop # StopTwo THEN "InvalidStopBits" ELSE "none"

\* parity stays PARITY_NONE unless the object is one of the two parity objects
parity_of(obj) ==
    IF obj = "Even" THEN "PARITY_EVEN"
    ELSE IF obj = "Odd" THEN "PARITY_ODD" ELSE "PARITY_NONE"

\* busio_uart_make_new up to validate_timeout: the checks in the order the
\* code makes them, each raising before the next is reached
make_new_checks(args, owner) ==
    FirstError(<<
        assert_pin(args.rx),
        IF assert_pin(args.rx) = "none" THEN assert_pin_free(owner, args.rx) ELSE "none",
        assert_pin(args.tx),
        IF assert_pin(args.tx) = "none" THEN assert_pin_free(owner, args.tx) ELSE "none",
        bits_check(ToUint8(args.bits)),
        stop_check(ToUint8(args.stop)),
        mp_obj_get_float(args.timeout).err,
        validate_timeout(mp_obj_get_float(args.timeout).f) >>)

\* the call with two of its integer arguments in each other's place
construct_call_swapped(args) ==
    [tx |-> args.tx, rx |-> args.rx, rts |-> args.rts, cts |-> args.cts,
     rs485_dir |-> args.rs485_dir, rs485_invert |-> args.rs485_invert,
     baudrate |-> args.receiver_buffer_size, bits |-> ToUint8(args.bits),
     parity |-> parity_of(args.parity), stop |-> ToUint8(args.stop),
     timeout |-> mp_obj_get_float(args.timeout).f,
     receiver_buffer_size |-> args.baudrate]

\* the call with the buffer size narrowed to eight bits, as bits and stop are
construct_call_narrow_size(args) ==
    [tx |-> args.tx, rx |-> args.rx, rts |-> args.rts, cts |-> args.cts,
     rs485_dir |-> args.rs485_dir, rs485_invert |-> args.rs485_invert,
     baudrate |-> args.baudrate, bits |-> ToUint8(args.bits),
     parity |-> parity_of(args.parity), stop |-> ToUint8(args.stop),
     timeout |-> mp_obj_get_float(args.timeout).f,
     receiver_buffer_size |-> ToUint8(args.receiver_buffer_size)]

\* the arguments busio_uart_make_new hands to common_hal_busio_uart_construct
construct_call(args) ==
    [tx |-> args.tx, rx |-> args.rx, rts |-> args.rts, cts |-> args.cts,
     rs485_dir |-> args.rs485_dir, rs485_invert |-> args.rs485_invert,
     baudrate |-> args.baudrate, bits |-> ToUint8(args.bits),
     parity |-> parity_of(args.parity), stop |-> ToUint8(args.stop),
     timeout |-> mp_obj_get_float(args.timeout).f,
     receiver_buffer_size |-> args.receiver_buffer_size]

\* a programmer that takes any baudrate
program_any_baudrate(baudrate, hw_accepts) ==
    IF hw_accepts THEN "none" ELSE "HardwareError"

\* the hardware framing/baud programmer: a baudrate that is not positive is
\* beyond any hardware's capability; hw_accepts is its answer to the rest
program(baudrate, hw_accepts) ==
    IF hw_accepts /\ baudrate > 0 THEN "none" ELSE "HardwareError"

\* the port's construct without its test that tx or rx is present
common_hal_busio_uart_construct_any_lines(call, owner, hw_accepts) ==
    LET c == ClaimLines(owner, LinesOf(call), <<>>) IN
    IF call.receiver_buffer_size < 0
    THEN [err |-> "InvalidBufferSize", owner |-> owner, buffer |-> FALSE,
          claimed |-> <<>>]
    ELSE IF c.err # "none"
    THEN [err |-> c.err, owner |-> c.owner, buffer |-> FALSE, claimed |-> c.claimed]
    ELSE IF program(call.baudrate, hw_accepts) # "none"
    THEN [err |-> program(call.baudrate, hw_accepts),
          owner |-> ReleaseAll(c.owner, c.claimed),
          buffer |-> FALSE, claimed |-> c.claimed]
    ELSE [err |-> "none", owner |-> c.owner, buffer |-> call.receiver_buffer_size > 0,
          claimed |-> c.claimed]

\* common_hal_busio_uart_construct: validates what the binding has not,
\* claims every line that is present, allocates the ReceiveBuffer (none for
\* capacity 0) and programs the framing; a failure at any step undoes the
\* steps before it.  hw_accepts is the framing programmer's answer.  The
\* outcome tells the error, the registry and the buffer allocation afterwards,
\* and the lines that were claimed on the way.
common_hal_busio_uart_construct(call, owner, hw_accepts) ==
    LET c == ClaimLines(owner, LinesOf(call), <<>>) IN
    IF call.receiver_buffer_size < 0
    THEN [err |-> "InvalidBufferSize", owner |-> owner, buffer |-> FALSE,
          claimed |-> <<>>]
    ELSE IF call.tx = None /\ call.rx = None
    THEN [err |-> "InvalidLines", owner |-> owner, buffer |-> FALSE, claimed |-> <<>>]
    ELSE IF c.err # "none"
    THEN [err |-> c.err, owner |-> c.owner, buffer |-> FALSE, claimed |-> c.claimed]
    ELSE IF program(call.baudrate, hw_accepts) # "none"
    THEN [err |-> program(call.baudrate, hw_accepts),
          owner |-> ReleaseAll(c.owner, c.claimed),
          buffer |-> FALSE, claimed |-> c.claimed]
    ELSE [err |-> "none", owner |-> c.owner, buffer |-> call.receiver_buffer_size > 0,
          claimed |-> c.claimed]

\* busio_uart_make_new with its checks made only after the session has been
\* set up in the port layer
make_new_outcome_late_checks(args, owner) ==
    LET pins == FirstError(<< assert_pin(args.rx), assert_pin(args.tx) >>)
        h == common_hal_busio_uart_construct(construct_call(args), owner, args.hw_accepts)
    IN  IF pins # "none"
        THEN [err |-> pins, owner |-> owner, buffer |-> FALSE, claimed |-> <<>>]
        ELSE IF h.err = "none" /\ make_new_checks(args, owner) # "none"
        THEN [h EXCEPT !.err = make_new_checks(args, owner)]
        ELSE h

\* the outcome of busio_uart_make_new: the checks come first, and only a call
\* that passes them reaches common_hal_busio_uart_construct
make_new_outcome(args, owner) ==
    IF make_new_checks(args, owner) # "none"
    THEN [err |-> make_new_checks(args, owner), owner |-> owner, buffer |-> FALSE,
          claimed |-> <<>>]
    ELSE common_hal_busio_uart_construct(construct_call(args), owner, args.hw_accepts)

----------------------------------------------------------------------------
(* Inputs *)

BitsInputs == {6, 7, 8, 9, 10, 263}
StopInputs == {0, 1, 2, 3, 257}
ParityInputs == {None, "Even", "Odd"}
TimeoutInputs ==
    {PyInt(-1), PyInt(0), PyInt(1), PyFloat(F(100)), PyFloat(F(101)), PyFloat(NaN), PyStr}
BaudInputs == {-1, 0, 9600, 115200}
BufferSizeInputs == -1 .. MaxBufferSize
PollFlags == SUBSET {"RD", "WR"}
Requests == {"MP_IOCTL_POLL", "MP_IOCTL_OTHER"}
\* instants at which a waiting read looks at the clock, in seconds since the call
ClockReadings == {1, 50, 100, 150}
\* lines another peripheral may hold
ContendedPins == {"RX", "DIR"}

\* construct calls that sweep the framing: every combination of the values
\* the code accepts, and the values it rejects alone and in pairs
ValidFramingCalls ==
    { [DefaultArgs EXCEPT !.bits = b, !.parity = p, !.stop = s, !.timeout = t] :
        b \in {7, 8, 9}, p \in ParityInputs, s \in {1, 2},
        t \in {PyInt(0), PyInt(1), PyFloat(F(100))} }
OtherFramingCalls ==
    { [DefaultArgs EXCEPT !.bits = b] : b \in BitsInputs }
    \cup { [DefaultArgs EXCEPT !.stop = s] : s \in StopInputs }
    \cup { [DefaultArgs EXCEPT !.timeout = t] : t \in TimeoutInputs }
    \cup { [DefaultArgs EXCEPT !.bits = b, !.stop = s, !.timeout = t] :
             b \in {8, 6}, s \in {1, 3}, t \in {PyInt(1), PyInt(-1)} }
\* construct calls that sweep the lines with the default framing
LineCalls ==
    { [DefaultArgs EXCEPT !.tx = l[1], !.rx = l[2], !.rs485_dir = l[3],
                          !.rs485_invert = l[4],
                          !.rts = f[1], !.cts = f[2], !.hw_accepts = f[3]] :
        l \in {None, "TX"} \X {None, "RX", "NotAPin"} \X {None, "DIR"} \X BOOLEAN,
        f \in {<<None, None, TRUE>>, <<"RTS", "CTS", TRUE>>, <<None, None, FALSE>>} }
\* construct calls that sweep the buffer size
BufferCalls ==
    { [DefaultArgs EXCEPT !.receiver_buffer_size = n, !.rs485_dir = d, !.hw_accepts = h] :
        n \in BufferSizeInputs, d \in {None, "DIR"}, h \in BOOLEAN }
\* construct calls that sweep the baudrate
BaudCalls == { [DefaultArgs EXCEPT !.baudrate = b] : b \in BaudInputs }
ConfigCalls ==
    ValidFramingCalls \cup OtherFramingCalls \cup LineCalls \cup BufferCalls \cup BaudCalls

\* construct calls for the receive side: every buffer size and timeout
RxCalls ==
    { [DefaultArgs EXCEPT !.tx = None, !.receiver_buffer_size = n, !.timeout = t] :
        n \in 0 .. MaxBufferSize,
        t \in {PyInt(0), PyInt(1), PyFloat(F(100)), PyFloat(NaN)} }
\* construct calls for the transmit side: with and without RS-485
TxCalls ==
    { [DefaultArgs EXCEPT !.rx = None, !.rs485_dir = l[1], !.rs485_invert = l[2]] :
        l \in {None, "DIR"} \X BOOLEAN }
\* construct calls with both sides
BothCalls ==
    { [DefaultArgs EXCEPT !.rs485_dir = d, !.receiver_buffer_size = 1] :
        d \in {None, "DIR"} }
IoCalls == RxCalls \cup TxCalls \cup BothCalls

----------------------------------------------------------------------------
(* The record a returning call leaves *)

Ret(op, arg, err, val) ==
    [op |-> op, arg |-> arg, pre |-> state, occ |-> Len(rxBuf), err |-> err,
     val |-> val, waited |-> FALSE, elapsed |-> 0]

NoFrame == [size |-> 0, occ |-> 0, elapsed |-> 0, count |-> 0, got |-> <<>>]

Init ==
    /\ state = "Unconstructed"
    /\ cfg = NoCfg
    /\ pinOwner = [p \in Pins |-> "free"]
    /\ rxBuf = <<>>
    /\ pushed = 0
    /\ dir = "Absent"
    /\ txQueue = <<>>
    /\ shifting = FALSE
    /\ pc = "idle"
    /\ frame = NoFrame
    /\ bufAlloc = FALSE
    /\ ret = [op |-> "none", arg |-> 0, pre |-> "Unconstructed", occ |-> 0,
              err |-> "none", val |-> 0, waited |-> FALSE, elapsed |-> 0]

\* the pins a construct call names
NamedPins(args) == {args.tx, args.rx, args.rts, args.cts, args.rs485_dir} \cap Pins

\* busio_uart_make_new; ret.val tells which of the named pins were in use
\* when the call was made and which lines it claimed on the way
busio_uart_make_new(args) ==
    /\ state = "Unconstructed"
    /\ pc = "idle"
    /\ LET o == make_new_outcome(args, pinOwner) IN
         /\ pinOwner' = o.owner
         /\ ret' = Ret("construct", args, o.err,
                       [busy |-> {q \in NamedPins(args) : pinOwner[q] # "free"},
                        claimed |-> o.claimed])
         /\ IF o.err = "none"
            THEN /\ state' = "Active"
                 /\ cfg' = construct_call(args)
                 /\ dir' = IF construct_call(args).rs485_dir = None
                           THEN "Absent" ELSE "Idle"
            ELSE UNCHANGED <<state, cfg, dir>>
         /\ bufAlloc' = o.buffer
         /\ UNCHANGED <<rxBuf, pushed, txQueue, shifting, pc, frame>>

----------------------------------------------------------------------------
(* Lifecycle *)

\* common_hal_busio_uart_deinited
common_hal_busio_uart_deinited == state = "Deinitialized"

\* check_for_deinit: raises when the session is deinitialized
check_for_deinit == IF common_hal_busio_uart_deinited THEN "DeinitializedError" ELSE "none"

\* a call that only reports: nothing but ret changes
Return(r) ==
    /\ ret' = r
    /\ UNCHANGED <<state, cfg, pinOwner, rxBuf, pushed, dir, txQueue, shifting, pc,
                   frame, bufAlloc>>

\* common_hal_busio_uart_deinit: a no-op on a deinitialized session, otherwise
\* releases the lines and the buffer and tears the hardware down
common_hal_busio_uart_deinit ==
    IF common_hal_busio_uart_deinited
    THEN UNCHANGED <<state, cfg, pinOwner, rxBuf, dir, txQueue, shifting, bufAlloc>>
    ELSE /\ state' = "Deinitialized"
         /\ pinOwner' = ReleaseAll(pinOwner, LinesOf(cfg))
         /\ cfg' = [cfg EXCEPT !.tx = None, !.rx = None, !.rts = None, !.cts = None,
                               !.rs485_dir = None]
         /\ rxBuf' = <<>>
         /\ bufAlloc' = FALSE
         /\ dir' = "Absent"
         /\ txQueue' = <<>>
         /\ shifting' = FALSE

\* deinit may also run while the owner is blocked in read's timeout wait
CanDeinit == state # "Unconstructed" /\ pc \in {"idle", "read_wait"}

\* busio_uart_obj_deinit with the deinit check the other methods make
busio_uart_obj_deinit_checked ==
    /\ CanDeinit
    /\ IF check_for_deinit # "none"
       THEN /\ ret' = Ret("deinit", 0, check_for_deinit, None)
            /\ UNCHANGED <<state, cfg, pinOwner, rxBuf, dir, txQueue, shifting, bufAlloc>>
       ELSE /\ common_hal_busio_uart_deinit
            /\ ret' = Ret("deinit", 0, "none", None)
    /\ UNCHANGED <<pushed, pc, frame>>

\* busio_uart_obj_deinit that leaves the session alone while a call is in
\* progress on it
busio_uart_obj_deinit_unless_busy ==
    /\ CanDeinit
    /\ IF pc # "idle"
       THEN UNCHANGED <<state, cfg, pinOwner, rxBuf, dir, txQueue, shifting, bufAlloc>>
       ELSE common_hal_busio_uart_deinit
    /\ ret' = Ret("deinit", 0, "none", None)
    /\ UNCHANGED <<pushed, pc, frame>>

\* busio_uart_obj_deinit
busio_uart_obj_deinit ==
    /\ CanDeinit
    /\ common_hal_busio_uart_deinit
    /\ ret' = Ret("deinit", 0, "none", None)
    /\ UNCHANGED <<pushed, pc, frame>>

\* busio_uart_obj___exit__
busio_uart_obj___exit__ ==
    /\ CanDeinit
    /\ common_hal_busio_uart_deinit
    /\ ret' = Ret("exit", 0, "none", None)
    /\ UNCHANGED <<pushed, pc, frame>>

\* the owner thread may start a call on the session
CanCall == state # "Unconstructed" /\ pc = "idle"

----------------------------------------------------------------------------
(* ReceiveBuffer *)

\* push: the arriving unit is dropped when the buffer is full
ReceiveBufferPush(buf, capacity, unit) ==
    IF Len(buf) >= capacity THEN buf ELSE Append(buf, unit)

\* pop_available: up to max_count units from the head
PopCount(buf, max_count) == Min(Len(buf), max_count)
\* a pop that hands out the newest units instead of the oldest
Popped_from_tail(buf, max_count) ==
    SubSeq(buf, Len(buf) - PopCount(buf, max_count) + 1, Len(buf))
Popped(buf, max_count) == SubSeq(buf, 1, PopCount(buf, max_count))
Remaining(buf, max_count) == SubSeq(buf, PopCount(buf, max_count) + 1, Len(buf))

\* the asynchronous receive path delivers the next unit (at most limit units
\* in a session)
Push(limit) ==
    /\ state = "Active"
    /\ cfg.rx # None
    /\ pushed < limit
    /\ pushed' = pushed + 1
    /\ rxBuf' = ReceiveBufferPush(rxBuf, cfg.receiver_buffer_size, pushed + 1)
    /\ UNCHANGED <<state, cfg, pinOwner, dir, txQueue, shifting, pc, frame, bufAlloc, ret>>

----------------------------------------------------------------------------
(* read *)

\* common_hal_busio_uart_read: takes what is buffered, up to size units, and
\* returns when that is all it was asked for or when the timeout is zero;
\* otherwise it waits, the timeout running "for the first character and
\* between subsequent characters".  The port counts on being asked for at
\* least one unit: with nothing buffered it waits for the first one.
common_hal_busio_uart_read(size) ==
    IF (Len(rxBuf) > 0 /\ Len(rxBuf) >= size) \/ FloatEq(cfg.timeout, F(0))
    THEN /\ rxBuf' = Remaining(rxBuf, size)
         /\ ret' = Ret("read", size, "none", Popped(rxBuf, size))
         /\ UNCHANGED <<state, cfg, pinOwner, pushed, dir, txQueue, shifting, pc, frame,
                        bufAlloc>>
    ELSE /\ pc' = "read_wait"
         /\ frame' = [NoFrame EXCEPT !.size = size, !.occ = Len(rxBuf), !.got = rxBuf]
         /\ rxBuf' = <<>>
         /\ UNCHANGED <<state, cfg, pinOwner, pushed, dir, txQueue, shifting, bufAlloc,
                        ret>>

\* busio_uart_read with the size test made before the deinit check
busio_uart_read_size_first(size) ==
    /\ CanCall
    /\ IF size = 0
       THEN Return(Ret("read", size, "none", <<>>))
       ELSE IF check_for_deinit # "none"
       THEN Return(Ret("read", size, check_for_deinit, <<>>))
       ELSE common_hal_busio_uart_read(size)

\* busio_uart_read without the test for size 0
busio_uart_read_no_zero_check(size) ==
    /\ CanCall
    /\ IF check_for_deinit # "none"
       THEN Return(Ret("read", size, check_for_deinit, <<>>))
       ELSE common_hal_busio_uart_read(size)

\* busio_uart_read with the size test off by one (size <= 1)
busio_uart_read_off_by_one(size) ==
    /\ CanCall
    /\ IF check_for_deinit # "none"
       THEN Return(Ret("read", size, check_for_deinit, <<>>))
       ELSE IF size <= 1
       THEN Return(Ret("read", size, "none", <<>>))
       ELSE common_hal_busio_uart_read(size)

\* busio_uart_read with the size test inverted (size != 0)
busio_uart_read_inverted_test(size) ==
    /\ CanCall
    /\ IF check_for_deinit # "none"
       THEN Return(Ret("read", size, check_for_deinit, <<>>))
       ELSE IF size # 0
       THEN Return(Ret("read", size, "none", <<>>))
       ELSE common_hal_busio_uart_read(size)

\* busio_uart_read
busio_uart_read(size) ==
    /\ CanCall
    /\ IF check_for_deinit # "none"
       THEN Return(Ret("read", size, check_for_deinit, <<>>))
       ELSE IF size = 0
       THEN Return(Ret("read", size, "none", <<>>))
       ELSE common_hal_busio_uart_read(size)

\* what a read that waited leaves when it returns
WaitRet(err, val, elapsed) ==
    [op |-> "read", arg |-> frame.size, pre |-> "Active", occ |-> frame.occ,
     err |-> err, val |-> val, waited |-> TRUE, elapsed |-> elapsed]

\* units the waiting read still asks for
Wanted == frame.size - Len(frame.got)

\* a wait that ends as soon as anything has arrived: the read takes what is
\* buffered and returns, however little
ReadWake_returns_at_once ==
    /\ pc = "read_wait"
    /\ state = "Active"
    /\ Len(rxBuf) > 0
    /\ rxBuf' = Remaining(rxBuf, Wanted)
    /\ ret' = WaitRet("none", frame.got \o Popped(rxBuf, Wanted), frame.elapsed)
    /\ pc' = "idle"
    /\ frame' = NoFrame
    /\ UNCHANGED <<state, cfg, pinOwner, pushed, dir, txQueue, shifting, bufAlloc>>

\* units have arrived during the wait: the read takes them, returns when it
\* has all it was asked for, and otherwise waits on with the timeout started
\* afresh
ReadWake ==
    /\ pc = "read_wait"
    /\ state = "Active"
    /\ Len(rxBuf) > 0
    /\ rxBuf' = Remaining(rxBuf, Wanted)
    /\ IF Len(rxBuf) >= Wanted
       THEN /\ ret' = WaitRet("none", frame.got \o Popped(rxBuf, Wanted), frame.elapsed)
            /\ pc' = "idle"
            /\ frame' = NoFrame
       ELSE /\ frame' = [frame EXCEPT !.got = frame.got \o rxBuf, !.elapsed = 0]
            /\ UNCHANGED <<ret, pc>>
    /\ UNCHANGED <<state, cfg, pinOwner, pushed, dir, txQueue, shifting, bufAlloc>>

\* whether the wait is over at clock reading e; a NaN timeout has no defined
\* deadline, either answer is possible
Expired(e, timeout) == IF timeout.nan THEN BOOLEAN ELSE {~FloatLt(F(e), timeout)}

\* the wait goes on with nothing buffered: the clock is read again, and the
\* read returns what it has taken so far (nothing, if no unit came) once the
\* timeout has elapsed
ReadTick ==
    /\ pc = "read_wait"
    /\ state = "Active"
    /\ rxBuf = <<>>
    /\ \E e \in ClockReadings :
         /\ e > frame.elapsed
         /\ \E expired \in Expired(e, cfg.timeout) :
              IF expired
              THEN /\ ret' = WaitRet("none", frame.got, e)
                   /\ pc' = "idle"
                   /\ frame' = NoFrame
              ELSE /\ frame' = [frame EXCEPT !.elapsed = e]
                   /\ UNCHANGED <<ret, pc>>
    /\ UNCHANGED <<state, cfg, pinOwner, rxBuf, pushed, dir, txQueue, shifting, bufAlloc>>

\* the session was deinitialized during the wait: the read returns at once
ReadCancelled ==
    /\ pc = "read_wait"
    /\ state = "Deinitialized"
    /\ ret' = WaitRet("DeinitializedError", <<>>, frame.elapsed)
    /\ pc' = "idle"
    /\ frame' = NoFrame
    /\ UNCHANGED <<state, cfg, pinOwner, rxBuf, pushed, dir, txQueue, shifting, bufAlloc>>

----------------------------------------------------------------------------
(* write and the hardware transmit path *)

\* units the transmit path can take now
TxSpace == IF state # "Active" \/ cfg.tx = None THEN 0 ELSE TxQueueCapacity - Len(txQueue)
\* submit(bytes) -> count_accepted
Accepts(n) == Min(n, TxSpace)
Payload(k) == [i \in 1 .. k |-> i]
\* transmission_complete(): nothing queued and nothing on the wire
transmission_complete == txQueue = <<>> /\ ~shifting

\* common_hal_busio_uart_write: without a direction line the payload is
\* submitted and the count returned; with one the line is driven first
common_hal_busio_uart_write(n) ==
    IF dir = "Absent"
    THEN /\ txQueue' = txQueue \o Payload(Accepts(n))
         /\ ret' = Ret("write", n, "none", Accepts(n))
         /\ UNCHANGED <<state, cfg, pinOwner, rxBuf, pushed, dir, shifting, pc, frame,
                        bufAlloc>>
    ELSE /\ dir' = "Driving"
         /\ pc' = "write_submit"
         /\ frame' = [NoFrame EXCEPT !.size = n, !.occ = Len(rxBuf)]
         /\ UNCHANGED <<state, cfg, pinOwner, rxBuf, pushed, txQueue, shifting, bufAlloc,
                        ret>>

\* busio_uart_write returning the size it was given instead of the port's count
busio_uart_write_returns_size(n) ==
    /\ CanCall
    /\ IF check_for_deinit # "none"
       THEN Return(Ret("write", n, check_for_deinit, 0))
       ELSE IF dir = "Absent"
       THEN /\ txQueue' = txQueue \o Payload(Accepts(n))
            /\ ret' = Ret("write", n, "none", n)
            /\ UNCHANGED <<state, cfg, pinOwner, rxBuf, pushed, dir, shifting, pc, frame,
                           bufAlloc>>
       ELSE common_hal_busio_uart_write(n)

\* busio_uart_write
busio_uart_write(n) ==
    /\ CanCall
    /\ IF check_for_deinit # "none"
       THEN Return(Ret("write", n, check_for_deinit, 0))
       ELSE common_hal_busio_uart_write(n)

\* RS-485: the line is driven, the payload goes to the transmit path
WriteSubmit ==
    /\ pc = "write_submit"
    /\ txQueue' = txQueue \o Payload(Accepts(frame.size))
    /\ frame' = [frame EXCEPT !.count = Accepts(frame.size)]
    /\ pc' = "write_drain"
    /\ UNCHANGED <<state, cfg, pinOwner, rxBuf, pushed, dir, shifting, bufAlloc, ret>>

\* the line released as soon as the transmit queue is empty
DrainDone_queue_empty == txQueue = <<>>

\* when the direction line may be released
DrainDone == transmission_complete

\* RS-485: the hardware confirms completion, the line goes back to idle and
\* write returns the count
WriteComplete ==
    /\ pc = "write_drain"
    /\ DrainDone
    /\ dir' = "Idle"
    /\ ret' = [op |-> "write", arg |-> frame.size, pre |-> "Active", occ |-> frame.occ,
               err |-> "none", val |-> frame.count, waited |-> TRUE, elapsed |-> 0]
    /\ pc' = "idle"
    /\ frame' = NoFrame
    /\ UNCHANGED <<state, cfg, pinOwner, rxBuf, pushed, txQueue, shifting, bufAlloc>>

\* the transmitter takes the next queued unit and starts shifting it out
HwShiftStart ==
    /\ state = "Active"
    /\ txQueue # <<>>
    /\ ~shifting
    /\ txQueue' = Tail(txQueue)
    /\ shifting' = TRUE
    /\ UNCHANGED <<state, cfg, pinOwner, rxBuf, pushed, dir, pc, frame, bufAlloc, ret>>

\* the last bit of the unit has left the wire
HwShiftDone ==
    /\ state = "Active"
    /\ shifting
    /\ shifting' = FALSE
    /\ UNCHANGED <<state, cfg, pinOwner, rxBuf, pushed, dir, txQueue, pc, frame, bufAlloc,
                   ret>>

----------------------------------------------------------------------------
(* ioctl *)

\* common_hal_busio_uart_rx_characters_available
common_hal_busio_uart_rx_characters_available == Len(rxBuf)
\* common_hal_busio_uart_ready_to_tx
common_hal_busio_uart_ready_to_tx == TxSpace > 0

\* the poll answer with the readable test satisfied by an empty buffer (>= 0)
poll_flags_empty_is_readable(flags) ==
    (IF "RD" \in flags /\ common_hal_busio_uart_rx_characters_available >= 0
     THEN {"RD"} ELSE {})
    \cup
    (IF "WR" \in flags /\ common_hal_busio_uart_ready_to_tx THEN {"WR"} ELSE {})

\* the poll answer without the test of the requested flags
poll_flags_unmasked(flags) ==
    (IF common_hal_busio_uart_rx_characters_available > 0 THEN {"RD"} ELSE {})
    \cup
    (IF common_hal_busio_uart_ready_to_tx THEN {"WR"} ELSE {})

\* the flags busio_uart_ioctl returns to MP_IOCTL_POLL
poll_flags(flags) ==
    (IF "RD" \in flags /\ common_hal_busio_uart_rx_characters_available > 0
     THEN {"RD"} ELSE {})
    \cup
    (IF "WR" \in flags /\ common_hal_busio_uart_ready_to_tx THEN {"WR"} ELSE {})

\* busio_uart_ioctl
busio_uart_ioctl(request, flags) ==
    /\ CanCall
    /\ IF check_for_deinit # "none"
       THEN Return(Ret("ioctl", <<request, flags>>, check_for_deinit, {}))
       ELSE IF request = "MP_IOCTL_POLL"
       THEN Return(Ret("ioctl", <<request, flags>>, "none", poll_flags(flags)))
       ELSE Return(Ret("ioctl", <<request, flags>>, "MP_EINVAL", {"MP_STREAM_ERROR"}))

----------------------------------------------------------------------------
(* Properties *)

\* busio_uart_obj_get_baudrate
busio_uart_obj_get_baudrate ==
    /\ CanCall
    /\ IF check_for_deinit # "none"
       THEN Return(Ret("get_baudrate", 0, check_for_deinit, 0))
       ELSE Return(Ret("get_baudrate", 0, "none", cfg.baudrate))

\* common_hal_busio_uart_set_baudrate: reprograms the hardware; the live
\* configuration changes only when the hardware takes the new baudrate
common_hal_busio_uart_set_baudrate(baudrate) ==
    IF program(baudrate, TRUE) # "none"
    THEN Return(Ret("set_baudrate", baudrate, program(baudrate, TRUE), 0))
    ELSE /\ cfg' = [cfg EXCEPT !.baudrate = baudrate]
         /\ ret' = Ret("set_baudrate", baudrate, "none", 0)
         /\ UNCHANGED <<state, pinOwner, rxBuf, pushed, dir, txQueue, shifting, pc,
                        frame, bufAlloc>>

\* busio_uart_obj_set_baudrate
busio_uart_obj_set_baudrate(baudrate) ==
    /\ CanCall
    /\ IF check_for_deinit # "none"
       THEN Return(Ret("set_baudrate", baudrate, check_for_deinit, 0))
       ELSE common_hal_busio_uart_set_baudrate(baudrate)

\* busio_uart_obj_get_in_waiting
busio_uart_obj_get_in_waiting ==
    /\ CanCall
    /\ IF check_for_deinit # "none"
       THEN Return(Ret("in_waiting", 0, check_for_deinit, 0))
       ELSE Return(Ret("in_waiting", 0, "none",
                       common_hal_busio_uart_rx_characters_available))

\* busio_uart_obj_get_timeout
busio_uart_obj_get_timeout ==
    /\ CanCall
    /\ IF check_for_deinit # "none"
       THEN Return(Ret("get_timeout", 0, check_for_deinit, PyFloat(F(0))))
       ELSE Return(Ret("get_timeout", 0, "none", mp_obj_new_float(cfg.timeout)))

\* what busio_uart_obj_set_timeout raises, if anything: the deinit check comes
\* first, then the conversion, then the range check
set_timeout_error(timeout) ==
    FirstError(<< check_for_deinit,
                  mp_obj_get_float(timeout).err,
                  validate_timeout(mp_obj_get_float(timeout).f) >>)

\* busio_uart_obj_set_timeout
busio_uart_obj_set_timeout(timeout) ==
    /\ CanCall
    /\ IF set_timeout_error(timeout) # "none"
       THEN Return(Ret("set_timeout", timeout, set_timeout_error(timeout), 0))
       ELSE /\ cfg' = [cfg EXCEPT !.timeout = mp_obj_get_float(timeout).f]
            /\ ret' = Ret("set_timeout", timeout, "none", 0)
            /\ UNCHANGED <<state, pinOwner, rxBuf, pushed, dir, txQueue, shifting, pc,
                           frame, bufAlloc>>

\* common_hal_busio_uart_clear_rx_buffer: ReceiveBuffer.clear()
common_hal_busio_uart_clear_rx_buffer ==
    /\ rxBuf' = <<>>
    /\ ret' = Ret("reset_input_buffer", 0, "none", 0)
    /\ UNCHANGED <<state, cfg, pinOwner, pushed, dir, txQueue, shifting, pc, frame,
                   bufAlloc>>

\* busio_uart_obj_reset_input_buffer that returns without clearing
busio_uart_obj_reset_input_buffer_no_clear ==
    /\ CanCall
    /\ IF check_for_deinit # "none"
       THEN Return(Ret("reset_input_buffer", 0, check_for_deinit, 0))
       ELSE Return(Ret("reset_input_buffer", 0, "none", 0))

\* busio_uart_obj_reset_input_buffer
busio_uart_obj_reset_input_buffer ==
    /\ CanCall
    /\ IF check_for_deinit # "none"
       THEN Return(Ret("reset_input_buffer", 0, check_for_deinit, 0))
       ELSE common_hal_busio_uart_clear_rx_buffer

----------------------------------------------------------------------------
(* Other users of the pins *)

EnvClaim(p) ==
    /\ pinOwner[p] = "free"
    /\ pinOwner' = [pinOwner EXCEPT ![p] = "other"]
    /\ UNCHANGED <<state, cfg, rxBuf, pushed, dir, txQueue, shifting, pc, frame,
                   bufAlloc, ret>>

EnvRelease(p) ==
    /\ pinOwner[p] = "other"
    /\ pinOwner' = [pinOwner EXCEPT ![p] = "free"]
    /\ UNCHANGED <<state, cfg, rxBuf, pushed, dir, txQueue, shifting, pc, frame,
                   bufAlloc, ret>>

----------------------------------------------------------------------------
(* Specifications *)

\* every call of the binding, against the receive and the transmit path
Next ==
    \/ \E args \in IoCalls : busio_uart_make_new(args)
    \/ busio_uart_obj_deinit
    \/ busio_uart_obj___exit__
    \/ \E size \in 0 .. MaxRead : busio_uart_read(size)
    \/ ReadWake
    \/ ReadTick
    \/ ReadCancelled
    \/ \E n \in 0 .. MaxWrite : busio_uart_write(n)
    \/ WriteSubmit
    \/ WriteComplete
    \/ HwShiftStart
    \/ HwShiftDone
    \/ \E request \in Requests, flags \in PollFlags : busio_uart_ioctl(request, flags)
    \/ busio_uart_obj_get_baudrate
    \/ \E baudrate \in {0, DefaultBaudrate} : busio_uart_obj_set_baudrate(baudrate)
    \/ busio_uart_obj_get_in_waiting
    \/ busio_uart_obj_get_timeout
    \/ \E timeout \in {PyInt(0), PyFloat(F(101))} : busio_uart_obj_set_timeout(timeout)
    \/ busio_uart_obj_reset_input_buffer
    \/ Push(MaxPushes)

Spec == Init /\ [][Next]_vars

\* construction, the properties and the lifecycle, on every configuration
NextConfig ==
    \/ \E args \in ConfigCalls : busio_uart_make_new(args)
    \/ busio_uart_obj_deinit
    \/ busio_uart_obj___exit__
    \/ busio_uart_obj_get_baudrate
    \/ \E baudrate \in BaudInputs : busio_uart_obj_set_baudrate(baudrate)
    \/ busio_uart_obj_get_timeout
    \/ \E timeout \in TimeoutInputs : busio_uart_obj_set_timeout(timeout)
    \/ \E p \in ContendedPins : EnvClaim(p)
    \/ \E p \in ContendedPins : EnvRelease(p)

SpecConfig == Init /\ [][NextConfig]_vars

\* the receive side alone: the receive path against read, in_waiting and
\* reset_input_buffer
NextRx ==
    \/ \E args \in RxCalls : busio_uart_make_new(args)
    \/ busio_uart_obj_deinit
    \/ \E size \in 0 .. MaxRead : busio_uart_read(size)
    \/ ReadWake
    \/ ReadTick
    \/ ReadCancelled
    \/ busio_uart_obj_get_in_waiting
    \/ busio_uart_obj_reset_input_buffer
    \/ Push(MaxPushes)

SpecRx == Init /\ [][NextRx]_vars

\* the loop of a blocked read keeps running
FairSpecRx ==
    /\ SpecRx
    /\ WF_vars(ReadWake)
    /\ WF_vars(ReadTick)
    /\ WF_vars(ReadCancelled)

TypeOK ==
    /\ state \in {"Unconstructed", "Active", "Deinitialized"}
    /\ pc \in {"idle", "read_wait", "write_submit", "write_drain"}
    /\ dir \in {"Absent", "Idle", "Driving"}
    /\ pushed \in 0 .. MaxPushes
    /\ shifting \in BOOLEAN
    /\ bufAlloc \in BOOLEAN

----------------------------------------------------------------------------
(* Claims *)

\* the calls that make the deinit check
GuardedOps ==
    {"read", "write", "ioctl", "get_baudrate", "set_baudrate", "get_timeout",
     "set_timeout", "in_waiting", "reset_input_buffer"}

\* C1: a call of read (also with size 0), write, ioctl, get/set_baudrate,
\* get/set_timeout, in_waiting or reset_input_buffer made on a deinitialized
\* session fails with DeinitializedError, and a deinitialized session never
\* becomes active again.
C1_GuardedCallFails ==
    (ret.op \in GuardedOps /\ ret.pre = "Deinitialized") => ret.err = "DeinitializedError"
C1_DeinitializedIsTerminal ==
    /\ []C1_GuardedCallFails
    /\ [][state = "Deinitialized" => state' = "Deinitialized"]_vars
C1_Witness ==
    /\ state = "Deinitialized"
    /\ ret.op = "read"
    /\ ret.arg = 0
    /\ ret.pre = "Deinitialized"
    /\ ret.err = "DeinitializedError"

\* C2: deinit and __exit__ on a deinitialized session succeed and change
\* nothing of the session: it stays deinitialized, the registry, the buffer
\* and the hardware are left as they were.
C2_RepeatedDeinitSucceeds ==
    (ret.op \in {"deinit", "exit"}) => (ret.err = "none" /\ state = "Deinitialized")
C2_DeinitIdempotent ==
    /\ []C2_RepeatedDeinitSucceeds
    /\ [][(state = "Deinitialized" /\ (busio_uart_obj_deinit \/ busio_uart_obj___exit__))
          => UNCHANGED <<state, cfg, pinOwner, rxBuf, pushed, dir, txQueue, shifting,
                         bufAlloc, pc, frame>>]_vars
C2_Witness ==
    /\ ret.op = "exit"
    /\ ret.pre = "Deinitialized"
    /\ ret.err = "none"
    /\ state = "Deinitialized"
    /\ pinOwner["RX"] = "other"

\* a construct call whose pin arguments passed the binding's pin checks
PinChecksPassed == ret.op = "construct" /\ ret.err \notin {"TypeError", "PinInUse"}

\* C3: construction fails with InvalidWordSize for every integer word_bits
\* other than 7, 8 and 9, and with InvalidStopBits for every integer
\* stop_bits other than 1 and 2.
C3_EveryBadFramingRejected ==
    PinChecksPassed =>
        /\ (ret.arg.bits \notin {7, 8, 9}) => ret.err = "InvalidWordSize"
        /\ (ret.arg.bits \in {7, 8, 9} /\ ret.arg.stop \notin {1, 2})
               => ret.err = "InvalidStopBits"

\* what the code does instead: the test is made on the low eight bits
C3_LowByteDecides ==
    PinChecksPassed =>
        /\ (ToUint8(ret.arg.bits) \notin {7, 8, 9}) <=> ret.err = "InvalidWordSize"
        /\ (ToUint8(ret.arg.bits) \in {7, 8, 9} /\ ToUint8(ret.arg.stop) \notin {1, 2})
               <=> ret.err = "InvalidStopBits"

\* a timeout in the closed range [0, 100]
InRange(x) == ~x.nan /\ x.v >= TimeoutMin /\ x.v <= TimeoutMax
IsNumber(o) == o.type \in {"int", "float"}

\* C4: a timeout is accepted iff it lies in [0, 100], at construction and at
\* set_timeout; a rejected one fails with InvalidTimeout and an accepted one
\* is the timeout get_timeout returns afterwards.
C4_AcceptedIffInRange ==
    /\ (ret.op = "set_timeout" /\ ret.pre = "Active" /\ IsNumber(ret.arg)) =>
           /\ ret.err = "none" <=> InRange(ret.arg.f)
           /\ ret.err # "none" => ret.err = "InvalidTimeout"
           /\ ret.err = "none" => cfg.timeout = ret.arg.f
    /\ (ret.op = "construct" /\ IsNumber(ret.arg.timeout) /\ ~InRange(ret.arg.timeout.f))
           => ret.err # "none"

\* what holds of the code: the same for every timeout that is a number
C4_NumbersAcceptedIffInRange ==
    /\ (ret.op = "set_timeout" /\ ret.pre = "Active" /\ IsNumber(ret.arg)
          /\ ~ret.arg.f.nan) =>
           /\ ret.err = "none" <=> InRange(ret.arg.f)
           /\ ret.err # "none" => ret.err = "InvalidTimeout"
           /\ ret.err = "none" => cfg.timeout = ret.arg.f
    /\ (ret.op = "construct" /\ IsNumber(ret.arg.timeout) /\ ~ret.arg.timeout.f.nan
          /\ ~InRange(ret.arg.timeout.f))
           => ret.err # "none"
C4_FailedSetKeepsTimeout ==
    [][\A t \in TimeoutInputs :
         (busio_uart_obj_set_timeout(t) /\ ret'.err # "none") => cfg' = cfg]_vars
C4_GetReturnsLiveTimeout ==
    (ret.op = "get_timeout" /\ ret.err = "none") => ret.val = PyFloat(cfg.timeout)

\* a construct call whose every argument is valid and whose lines were free
ValidCall(args, busy) ==
    /\ args.bits \in {7, 8, 9}
    /\ args.stop \in {1, 2}
    /\ args.parity \in ParityInputs
    /\ IsNumber(args.timeout) /\ InRange(args.timeout.f)
    /\ args.receiver_buffer_size >= 0
    /\ {args.tx, args.rx} \subseteq Pins \cup {None}
    /\ {args.tx, args.rx} # {None}
    /\ args.hw_accepts
    /\ args.baudrate > 0
    /\ busy = {}
ValidationErrors == {"InvalidWordSize", "InvalidStopBits", "InvalidTimeout"}

\* C5: a construct call that fails leaves no line claimed and no buffer
\* allocated; one rejected for its word_bits, stop_bits or timeout claimed no
\* line on the way; and a call with valid arguments and free lines succeeds,
\* holding every line it named.
C5_ConstructAllOrNothing ==
    ret.op = "construct" =>
        /\ ret.err # "none" =>
               /\ state = "Unconstructed"
               /\ \A q \in Pins : pinOwner[q] # "uart"
               /\ ~bufAlloc
        /\ ret.err \in ValidationErrors => ret.val.claimed = <<>>
        /\ ValidCall(ret.arg, ret.val.busy) =>
               /\ ret.err = "none"
               /\ state = "Active"
               /\ \A q \in NamedPins(ret.arg) : pinOwner[q] = "uart"
               /\ bufAlloc = (ret.arg.receiver_buffer_size > 0)
C5_Witness ==
    /\ ret.op = "construct"
    /\ ret.err = "LineUnavailable"
    /\ Len(ret.val.claimed) >= 2
    /\ \A q \in Pins : pinOwner[q] # "uart"

\* C6: read with size 0 on an active session returns an empty result at
\* once, whatever is buffered and whatever the timeout: it never waits and
\* leaves the receive buffer as it was.
C6_ZeroReadResult ==
    /\ (ret.op = "read" /\ ret.arg = 0 /\ ret.pre = "Active") =>
           (ret.err = "none" /\ ret.val = <<>> /\ ~ret.waited)
    /\ pc = "read_wait" => frame.size > 0
C6_ZeroReadTouchesNothing ==
    /\ []C6_ZeroReadResult
    /\ [][(state = "Active" /\ busio_uart_read(0))
          => (pc' = "idle" /\ UNCHANGED <<rxBuf, pushed, cfg, state>>)]_vars
C6_Witness ==
    /\ ret.op = "read"
    /\ ret.arg = 0
    /\ ret.err = "none"
    /\ ret.occ > 0
    /\ Len(rxBuf) = ret.occ
    /\ FloatGt(cfg.timeout, F(0))

\* C7: with timeout 0 and k <= size units buffered, read(size) returns exactly
\* those k units without waiting and leaves the buffer empty; with k = 0 the
\* result is empty and no error.
C7_ZeroTimeoutResult ==
    (ret.op = "read" /\ ret.pre = "Active" /\ ret.arg > 0 /\ FloatEq(cfg.timeout, F(0))
       /\ ret.occ <= ret.arg)
    => (ret.err = "none" /\ Len(ret.val) = ret.occ /\ ~ret.waited)
C7_ZeroTimeoutRead ==
    /\ []C7_ZeroTimeoutResult
    /\ [][\A size \in 1 .. MaxRead :
            (state = "Active" /\ FloatEq(cfg.timeout, F(0)) /\ Len(rxBuf) <= size
               /\ ret'.op = "read" /\ busio_uart_read(size))
            => (ret'.val = rxBuf /\ rxBuf' = <<>> /\ pc' = "idle" /\ ret'.err = "none")]_vars
C7_Witness ==
    /\ ret.op = "read"
    /\ ret.err = "none"
    /\ FloatEq(cfg.timeout, F(0))
    /\ ret.occ = 2
    /\ ret.arg = 2
    /\ Len(ret.val) = 2
    /\ rxBuf = <<>>

\* C8: with a timeout T > 0, a read of size > 0 that finds nothing always
\* returns; when it returns empty it has waited, at least T has elapsed, the
\* result is no error and the session is still active.
C8_EmptyOnlyAfterTimeout ==
    (ret.op = "read" /\ ret.pre = "Active" /\ ret.arg > 0 /\ ret.err = "none"
       /\ ret.val = <<>> /\ FloatGt(cfg.timeout, F(0)))
    => (ret.waited /\ ~FloatLt(F(ret.elapsed), cfg.timeout) /\ state = "Active")
C8_TimedReadTerminates ==
    /\ []C8_EmptyOnlyAfterTimeout
    /\ [][(pc = "read_wait" /\ pc' = "idle" /\ state' = "Active" /\ rxBuf = <<>>
             /\ frame.got = <<>>)
          => (ret'.err = "none" /\ ret'.val = <<>>)]_vars
    /\ (pc = "read_wait" /\ FloatGt(cfg.timeout, F(0))) ~> (pc = "idle")
C8_Witness ==
    /\ ret.op = "read"
    /\ ret.err = "none"
    /\ ret.waited
    /\ ret.val = <<>>
    /\ FloatEq(cfg.timeout, F(100))
    /\ ret.elapsed >= 100
    /\ pushed = 0
    /\ state = "Active"

\* the first n units the receive path delivered
FirstUnits(n) == [i \in 1 .. n |-> i]

\* C9: the occupancy of the receive buffer is between 0 and its capacity; a
\* unit arriving at a full buffer is dropped and the buffered units stay as
\* they are, any other is appended; so until the first read or reset (none
\* made, none in progress) the buffer holds the first units delivered, at
\* most the capacity asked for.
C9_OccupancyBounded ==
    /\ Len(rxBuf) >= 0
    /\ Len(rxBuf) <= cfg.receiver_buffer_size
    /\ (ret.op = "construct" /\ ret.err = "none" /\ pc = "idle") =>
           rxBuf = FirstUnits(Min(pushed, ret.arg.receiver_buffer_size))
C9_DropNewest ==
    /\ []C9_OccupancyBounded
    /\ [][pushed' = pushed + 1 =>
            rxBuf' = IF Len(rxBuf) = cfg.receiver_buffer_size
                     THEN rxBuf ELSE Append(rxBuf, pushed')]_vars
C9_Witness ==
    /\ ret.op = "construct"
    /\ cfg.receiver_buffer_size = 2
    /\ pushed = 3
    /\ rxBuf = <<1, 2>>

\* C10: on a session with a direction line, the line is driven whenever a
\* unit is queued or on the wire, it goes back to idle only when the hardware
\* reports the transmission complete, and it is idle whenever no write is in
\* progress.
C10_DrivenWhileSending ==
    dir # "Absent" =>
        /\ (txQueue # <<>> \/ shifting) => dir = "Driving"
        /\ pc \in {"write_submit", "write_drain"} <=> dir = "Driving"
        /\ pc \in {"idle", "read_wait"} <=> dir = "Idle"
C10_DirectionAroundWrite ==
    /\ []C10_DrivenWhileSending
    /\ [][(dir = "Driving" /\ dir' # "Driving")
          => (transmission_complete /\ dir' = "Idle" /\ pc' = "idle"
              /\ ret'.op = "write")]_vars
C10_Witness ==
    /\ dir = "Driving"
    /\ pc = "write_drain"
    /\ txQueue = <<>>
    /\ shifting

\* what a poll leaves alone: everything but the record of the call
PollChangesNothing ==
    UNCHANGED <<state, cfg, pinOwner, rxBuf, pushed, dir, txQueue, shifting, pc, frame,
                bufAlloc>>

\* C11 as stated: a poll reports readable iff the receive buffer holds a
\* unit and writable iff the transmit path can take a unit, for every
\* combination of the requested flags; it does not block and changes neither
\* the buffer nor the configuration.
C11_PollReportsBoth ==
    [][\A flags \in PollFlags :
         (state = "Active" /\ busio_uart_ioctl("MP_IOCTL_POLL", flags)) =>
             /\ ret'.err = "none"
             /\ "RD" \in ret'.val <=> Len(rxBuf) > 0
             /\ "WR" \in ret'.val <=> TxSpace > 0
             /\ PollChangesNothing]_vars

\* C11 as amended: a poll reports readable iff readable was requested and the
\* receive buffer holds a unit, and writable iff writable was requested and
\* the transmit path can take a unit; it returns at once (the owner is never
\* left in a wait) and changes neither the buffer nor the configuration.
C11_PollReportsRequested ==
    [][\A flags \in PollFlags :
         (state = "Active" /\ ret'.op = "ioctl"
            /\ busio_uart_ioctl("MP_IOCTL_POLL", flags)) =>
             /\ ret'.err = "none"
             /\ "RD" \in ret'.val <=> ("RD" \in flags /\ Len(rxBuf) > 0)
             /\ "WR" \in ret'.val <=> ("WR" \in flags /\ TxSpace > 0)
             /\ pc' = "idle"
             /\ PollChangesNothing]_vars
C11_Witness ==
    /\ ret.op = "ioctl"
    /\ ret.pre = "Active"
    /\ ret.arg = <<"MP_IOCTL_POLL", {"WR"}>>
    /\ ret.occ > 0
    /\ ret.val = {"WR"}

\* C12: write returns a count n between 0 and the length of the payload and
\* hands exactly the first n units of the payload to the hardware transmit
\* path, in order, behind what is already queued; the count is short only
\* when the transmit path can take no more, it is returned as an ordinary
\* result, and the payload is submitted once (nothing is submitted again
\* while the call drains).
C12_CountInRange ==
    (ret.op = "write" /\ ret.pre = "Active") =>
        (ret.err = "none" /\ ret.val \in 0 .. ret.arg)
C12_WriteDropsNothing ==
    /\ []C12_CountInRange
    /\ [][\A n \in 0 .. MaxWrite :
            (state = "Active" /\ dir = "Absent" /\ ret'.op = "write"
               /\ busio_uart_write(n)) =>
                /\ txQueue' = txQueue \o Payload(ret'.val)
                /\ ret'.val < n => (cfg.tx = None \/ Len(txQueue') = TxQueueCapacity)
                /\ pc' = "idle"]_vars
    /\ [][(pc = "write_submit" /\ pc' # pc) =>
                /\ frame'.count \in 0 .. frame.size
                /\ txQueue' = txQueue \o Payload(frame'.count)
                /\ frame'.count < frame.size => Len(txQueue') = TxQueueCapacity]_vars
    /\ [][pc = "write_drain" =>
                /\ txQueue' = txQueue \/ (txQueue # <<>> /\ txQueue' = Tail(txQueue))
                /\ pc' = "idle" => (ret'.op = "write" /\ ret'.err = "none"
                                    /\ ret'.val = frame.count /\ ret'.arg = frame.size)]_vars
C12_Witness ==
    /\ ret.op = "write"
    /\ ret.err = "none"
    /\ ret.arg = 2
    /\ ret.val = 1
    /\ dir = "Absent"
    /\ Len(txQueue) = TxQueueCapacity

\* C13: a deinit that runs while a read is blocked in its wait deinitializes
\* the session and releases the buffer; the blocked read then returns with
\* DeinitializedError and no units, at the next step of its wait: it does not
\* go on waiting, takes nothing from the buffer, and always returns.
C13_CancelledReadFails ==
    (ret.op = "read" /\ ret.waited /\ state = "Deinitialized" /\ pc = "idle") =>
        (ret.err = "DeinitializedError" /\ ret.val = <<>>)
C13_DeinitCancelsRead ==
    /\ []C13_CancelledReadFails
    /\ [][(pc = "read_wait" /\ busio_uart_obj_deinit) =>
              (state' = "Deinitialized" /\ rxBuf' = <<>> /\ ~bufAlloc')]_vars
    /\ [][(pc = "read_wait" /\ state = "Deinitialized") =>
              /\ rxBuf' = rxBuf
              /\ pc' = "read_wait" => frame' = frame
              /\ pc' = "idle" => (ret'.op = "read" /\ ret'.err = "DeinitializedError"
                                  /\ ret'.val = <<>>)]_vars
    /\ (pc = "read_wait" /\ state = "Deinitialized")
           ~> (pc = "idle" /\ ret.op = "read" /\ ret.err = "DeinitializedError")
C13_Witness ==
    /\ ret.op = "read"
    /\ ret.waited
    /\ ret.err = "DeinitializedError"
    /\ ret.arg > 0
    /\ state = "Deinitialized"
    /\ pc = "idle"
    /\ pushed < MaxPushes

\* C14: reset_input_buffer on an active session discards every buffered
\* unit, whatever the occupancy, and changes neither the configuration nor
\* the transmission in flight (queue, wire, direction line); the buffer then
\* stays empty until the receive path pushes, and on an empty buffer
\* in_waiting returns 0 and a zero-timeout read returns empty.
C14_ClearDiscardsAll ==
    /\ [][(state = "Active" /\ busio_uart_obj_reset_input_buffer) =>
              /\ ret'.err = "none"
              /\ rxBuf' = <<>>
              /\ UNCHANGED <<state, cfg, pinOwner, pushed, dir, txQueue, shifting, pc,
                             bufAlloc>>]_vars
    /\ [][(rxBuf = <<>> /\ rxBuf' # <<>>) => pushed' = pushed + 1]_vars
    /\ [][(state = "Active" /\ rxBuf = <<>> /\ busio_uart_obj_get_in_waiting) =>
              (ret'.err = "none" /\ ret'.val = 0)]_vars
    /\ [][\A size \in 1 .. MaxRead :
            (state = "Active" /\ rxBuf = <<>> /\ FloatEq(cfg.timeout, F(0))
               /\ ret'.op = "read" /\ busio_uart_read(size)) =>
              (ret'.err = "none" /\ ret'.val = <<>> /\ pc' = "idle")]_vars
C14_Witness ==
    /\ ret.op = "reset_input_buffer"
    /\ ret.err = "none"
    /\ ret.occ > 0
    /\ rxBuf = <<>>
    /\ state = "Active"
    /\ txQueue # <<>>
    /\ shifting

\* C15: a construct call that names neither a tx nor an rx line fails and
\* leaves no session (nothing claimed, nothing allocated); no active session
\* is without both lines.
C15_TxOrRxRequired ==
    /\ state = "Active" => (cfg.tx # None \/ cfg.rx # None)
    /\ (ret.op = "construct" /\ ret.arg.tx = None /\ ret.arg.rx = None) =>
           /\ ret.err # "none"
           /\ state = "Unconstructed"
           /\ \A q \in Pins : pinOwner[q] # "uart"
           /\ ~bufAlloc
C15_Witness ==
    /\ ret.op = "construct"
    /\ ret.arg.tx = None
    /\ ret.arg.rx = None
    /\ ret.arg.rs485_dir = "DIR"
    /\ ret.val.busy = {}
    /\ ret.err = "InvalidLines"
    /\ state = "Unconstructed"

\* the errors busio_uart_make_new raises itself, before the port is called
BindingErrors ==
    {"TypeError", "PinInUse", "InvalidWordSize", "InvalidStopBits", "InvalidTimeout"}

\* C16: a construct call with a negative receiver_buffer_size fails with
\* InvalidBufferSize and leaves no session; with receiver_buffer_size 0 and
\* everything else valid it succeeds, and the session has no receive buffer.
C16_BufferSizeChecked ==
    ret.op = "construct" =>
        /\ ret.arg.receiver_buffer_size < 0 =>
               /\ ret.err # "none"
               /\ ret.err \notin BindingErrors => ret.err = "InvalidBufferSize"
               /\ state = "Unconstructed"
               /\ \A q \in Pins : pinOwner[q] # "uart"
               /\ ~bufAlloc
        /\ (ret.arg.receiver_buffer_size = 0 /\ ValidCall(ret.arg, ret.val.busy)) =>
               /\ ret.err = "none"
               /\ state = "Active"
               /\ cfg.receiver_buffer_size = 0
               /\ ~bufAlloc
               /\ rxBuf = <<>>
C16_Witness ==
    /\ ret.op = "construct"
    /\ ret.arg.receiver_buffer_size = -1
    /\ ret.arg.rs485_dir = "DIR"
    /\ ret.val.busy = {}
    /\ ret.err = "InvalidBufferSize"
    /\ state = "Unconstructed"

C17_ShortOnlyAfterTimeout ==
    (ret.op = "read" /\ ret.pre = "Active" /\ ret.err = "none" /\ ret.arg > 0
       /\ Len(ret.val) < ret.arg /\ FloatGt(cfg.timeout, F(0)))
    => (ret.waited /\ ~FloatLt(F(ret.elapsed), cfg.timeout))
Increasing(seq) == \A i \in 1 .. Len(seq) - 1 : seq[i] < seq[i + 1]
\* the units taken from the receive path and not yet returned or discarded:
\* those a waiting read has consumed, then those buffered
Held == frame.got \o rxBuf
\* a step in which a read on the active session returns
ReadReturns ==
    /\ state = "Active"
    /\ pc' = "idle"
    /\ (\E size \in 0 .. MaxRead : busio_uart_read(size)) \/ ReadWake \/ ReadTick

\* C18: however the receive path interleaves with read, in_waiting and
\* reset_input_buffer on an active session, the units reads return are units
\* that were pushed, in arrival order, none twice: a read returns the oldest
\* held units in order and removes exactly those, what it returns is older
\* than everything still held or pushed later, a unit enters only by a push
\* at the tail, and held units leave otherwise only by reset_input_buffer.
C18_ReturnedInArrivalOrder ==
    /\ Increasing(Held)
    /\ \A i \in 1 .. Len(Held) : Held[i] \in 1 .. pushed
    /\ (ret.op = "read" /\ ret.err = "none") =>
           /\ Increasing(ret.val \o Held)
           /\ \A i \in 1 .. Len(ret.val) : ret.val[i] \in 1 .. pushed
C18_ReadsAreFifo ==
    /\ []C18_ReturnedInArrivalOrder
    /\ [][ReadReturns =>
              (ret'.op = "read" /\ ret'.err = "none" /\ ret'.val \o Held' = Held
               /\ pushed' = pushed)]_vars
    /\ [][(state' = "Active" /\ state = "Active" /\ ~ReadReturns) =>
              \/ Held' = Held /\ pushed' = pushed
              \/ Held' = Held /\ pushed' = pushed + 1
                   /\ Len(rxBuf) >= cfg.receiver_buffer_size
              \/ Held' = Append(Held, pushed + 1) /\ pushed' = pushed + 1
              \/ Held' = <<>> /\ pushed' = pushed /\ ret'.op = "reset_input_buffer"]_vars
C18_Witness ==
    /\ ret.op = "read"
    /\ ret.err = "none"
    /\ ret.val = <<1, 3>>
    /\ pushed = 3
    /\ state = "Active"

\* the framing of a session: what no operation changes after construction
Framing(c) == <<c.bits, c.parity, c.stop>>

\* C19: the baudrate of an active session is a positive integer: a construct
\* call or a set_baudrate with a baudrate of zero or less fails and leaves
\* the baudrate as it was; the word size, parity and stop bits of a session
\* never change after construction, the baudrate changes only by a
\* set_baudrate that succeeds and the timeout only by a set_timeout that
\* succeeds.
C19_BaudratePositive ==
    /\ state = "Active" => cfg.baudrate > 0
    /\ (ret.op = "construct" /\ ret.arg.baudrate <= 0) =>
           (ret.err # "none" /\ state = "Unconstructed")
    /\ (ret.op = "set_baudrate" /\ ret.pre = "Active" /\ ret.arg <= 0) => ret.err # "none"
    /\ (ret.op = "set_baudrate" /\ ret.err = "none") =>
           (ret.arg > 0 /\ cfg.baudrate = ret.arg)
C19_ConfigChangesOnlyBySetters ==
    /\ []C19_BaudratePositive
    /\ [][state = "Active" =>
              /\ Framing(cfg') = Framing(cfg)
              /\ cfg'.baudrate # cfg.baudrate =>
                     (ret'.op = "set_baudrate" /\ ret'.err = "none"
                      /\ cfg'.baudrate = ret'.arg)
              /\ cfg'.timeout # cfg.timeout =>
                     (ret'.op = "set_timeout" /\ ret'.err = "none")
              /\ cfg'.receiver_buffer_size = cfg.receiver_buffer_size]_vars
C19_Witness ==
    /\ ret.op = "set_baudrate"
    /\ ret.pre = "Active"
    /\ ret.arg = 0
    /\ ret.err = "HardwareError"
    /\ state = "Active"
    /\ cfg.baudrate = 115200

\* C20: the flags a poll returns are among the flags it was asked for,
\* whatever is buffered and whether or not the transmit path is ready; any
\* other request returns MP_STREAM_ERROR with the error code MP_EINVAL and
\* changes nothing of the session.
C20_PollAnswerWithinRequest ==
    (ret.op = "ioctl" /\ ret.pre = "Active") =>
        /\ ret.arg[1] = "MP_IOCTL_POLL" =>
               (ret.err = "none" /\ ret.val \subseteq ret.arg[2])
        /\ ret.arg[1] # "MP_IOCTL_POLL" =>
               (ret.err = "MP_EINVAL" /\ ret.val = {"MP_STREAM_ERROR"})
C20_IoctlAnswers ==
    /\ []C20_PollAnswerWithinRequest
    /\ [][(state = "Active" /\ ret'.op = "ioctl") =>
              \A request \in Requests, flags \in PollFlags :
                  busio_uart_ioctl(request, flags) => PollChangesNothing]_vars
C20_Witness ==
    /\ ret.op = "ioctl"
    /\ ret.pre = "Active"
    /\ ret.arg = <<"MP_IOCTL_POLL", {"RD"}>>
    /\ ret.occ > 0
    /\ ret.val = {"RD"}
    /\ cfg.tx # None
    /\ txQueue = <<>>

=============================================================================
